---- MODULE Spec2Model ----
(***************************************************************************)
(* Relay aggregation layer of nostr-mini-twitter: src/lib/nostr/events.ts, *)
(* relays.ts and hooks.ts.                                                 *)
(*                                                                         *)
(* The repository drives a SimplePool of the nostr-tools package.  The     *)
(* pool's own code is not part of the repository; the definitions whose    *)
(* names start with Pool, and the relay steps, model it from the           *)
(* aggregation contract of the specification (sections 4.4 and 6).         *)
(* Everything else is translated from the TypeScript source.               *)
(*                                                                         *)
(* The specifications that share the module:                               *)
(*   SpecQuery      fetchEvents / fetchUserMetadata over the relays        *)
(*   SpecPublish    publishEvent (FairSpecPublish adds the fairness)       *)
(*   SpecSub        subscribeToEvents and its cancellation handle          *)
(*   SpecRelayList  the relay list persisted in localStorage               *)
(*   SpecPool       getPool / connectToRelays / closePool                  *)
(*   SpecRelays     SpecPool with addRelay / removeRelay of a custom relay *)
(*   SpecPost       the operations that build, sign and post an event      *)
(*   SpecProfile    useNostrProfile over fetchUserMetadata                 *)
(*   SpecProfileCalls  overlapping fetchProfile calls of useNostrProfile    *)
(*   SpecRelayEdit  addRelay / removeRelay over every relay url             *)
(*   SpecKeys       the key conversions of keys.ts                          *)
(*   SpecHook       useNostrEvents                                          *)
(*   SpecHookPending, SpecHookStale  its variant with a pending list        *)
(***************************************************************************)
EXTENDS Integers, Sequences, FiniteSets, TLC

VARIABLES
    \* ---- query: fetchEvents / fetchUserMetadata
    qPhase,        \* "idle" | "open" | "done"
    qStatus,       \* per relay: "pending" | "eose" | "failed" (error or timeout)
    qFrom,         \* per id: the relay that delivered it first, 0 if none did
    qOverlap,      \* some id was delivered again by another relay
    qKnownIds,     \* the pool's per-query set of ids already handed on
    qEvents,       \* the events array querySync collects, in arrival order
    fetchRet,      \* what fetchEvents returned
    metaRet,       \* what fetchUserMetadata returns for it: <<>> (null) or <<event>>
    obsAllFailed,  \* return values seen by callers when every relay was unreachable
    obsLegitEmpty, \* return values seen when relays answered and had nothing
    \* ---- publish: publishEvent
    pPhase,        \* "idle" | "pending" | "resolved"
    pRelayUrls,    \* the relayUrls argument
    pPromises,     \* per index: "pending" | "fulfilled" | "rejected" | "timedout"
    pResults,      \* the Record<string, boolean> publishEvent returns
    \* ---- subscribe: subscribeToEvents
    sPhase,        \* "none" | "open" | "cancelled"
    sOpen,         \* per relay: the per-relay subscription is open
    sFrom,         \* per id: the relay that pushed it first, 0 if none did
    sOverlap,      \* some id was pushed again by another relay
    lateEvents,    \* onEvent ran after the handle had been invoked
    sKnownIds,     \* the pool's per-subscription set of ids already handed on
    onEventLog,    \* ids for which the caller's onEvent ran, in order
    cancelCalls,   \* how many times the cancellation handle was invoked
    unsubRef,      \* useNostrEvents: unsubRef.current holds a handle
    \* ---- relay management: relays.ts
    storage,       \* the localStorage item, as JSON tokens; <<>> when absent
    savedArg,      \* <<list>>: the list last given to saveRelays and still stored
    pool,          \* the module's pool: 0 (null) or the number of the instance
    poolGen,       \* how many pools have been created
    closedGens,    \* the pools closePool has closed
    activeRelays,  \* the keys of the activeRelays record
    conns,         \* relays to which a connection the pool opened is still open
    cPhase,        \* connect call: "idle" | "pending" | "returned" | "threw"
    cKind,         \* "many" (connectToRelays) | "one" (connectToRelay)
    cAttempt,      \* per url: "none" | "pending" | "ok" | "failed"
    cPool,         \* the pool the connect call took from getPool()
    cRet,          \* the relays the connect call returned
    lastOp,        \* the operation that ran last
    \* ---- building and posting events: events.ts
    eOp,           \* the operation called last
    eKey,          \* the state of the private key at that call
    ePhase,        \* "idle" | "publishing" | "done"
    eRet,          \* "none" | "event" | "null" | "threw" | "liked" | "nothing"
    ePublishCalled,\* the operation called publishEvent
    \* ---- profile: useNostrProfile
    profEvent,     \* the hook's event state: <<>> (null) or <<event>>
    profLoading,   \* a fetchProfile is awaiting fetchUserMetadata
    lateNewest,    \* created_at of the newest event that arrived after a query resolved
    curPubkey,     \* the pubkey argument of the last render, 0 before the hook is used
    pfCount,       \* how many fetchProfile calls have got to their await
    pfState,       \* per call: "none" | "pending" | "settled"
    pfKey,         \* per call: the pubkey it closed over
    pfShown,       \* the call whose result setEvent / setProfile stored last, 0 if none
    \* ---- keys: keys.ts
    libFoldsCase,  \* the build's hexToBytes takes upper-case digits (else it throws)
    libChecksBytes,\* the build's bytesToHex throws when handed a string
    kOp,           \* the conversion applied last
    kHex,          \* the hex string the last encoding started from
    kIn,           \* the display form given to the last decoding
    kOut,          \* what the last conversion returned
    \* ---- event list: useNostrEvents
    withPending,   \* the hook is the variant that keeps a pending list
    autoUpdate,    \* that variant's autoUpdate option
    mounted,       \* the component that uses the hook is mounted
    hEvents,       \* the events state
    pendingEvents, \* the pendingEvents state
    hasNewEvents,  \* the hasNewEvents state
    isLoading,     \* the isLoading state
    nRuns,         \* how many times the effect has run
    runPhase,      \* per effect run: where its connectAndFetch stands
    runCleaned,    \* per effect run: its cleanup has run
    runKnown,      \* per effect run: the ids its callback will not take (see below)
    hSubOpen,      \* per effect run: the subscription it opened is open
    hUnsubRef,     \* unsubRef.current: 0 (null) or the run whose handle it holds
    refetching,    \* refetch calls awaiting fetchEvents
    hLast          \* what changed the lists last: "none" | "fetch" | "event" | "load"

qvars == <<qPhase, qStatus, qFrom, qOverlap, qKnownIds, qEvents, fetchRet, metaRet,
           obsAllFailed, obsLegitEmpty>>
pvars == <<pPhase, pRelayUrls, pPromises, pResults>>
svars == <<sPhase, sOpen, sFrom, sOverlap, lateEvents, sKnownIds, onEventLog,
           cancelCalls, unsubRef>>
rvars == <<storage, savedArg, pool, poolGen, closedGens, activeRelays, conns,
           cPhase, cKind, cAttempt, cPool, cRet, lastOp>>
evars == <<eOp, eKey, ePhase, eRet, ePublishCalled>>
fvars == <<profEvent, profLoading, lateNewest, curPubkey, pfCount, pfState, pfKey,
           pfShown>>
kvars == <<libFoldsCase, libChecksBytes, kOp, kHex, kIn, kOut>>
hvars == <<withPending, autoUpdate, mounted, hEvents, pendingEvents, hasNewEvents,
           isLoading, nRuns, runPhase, runCleaned, runKnown, hSubOpen, hUnsubRef,
           refetching, hLast>>
vars  == <<qvars, pvars, svars, rvars, evars, fvars, kvars, hvars>>

----------------------------------------------------------------------------
(* Bounds *)

NRelays == 2          \* relays a query or subscription fans out to
NEvents == 3          \* distinct events the relays hold
MaxUrls == 3          \* length of the relayUrls argument of publishEvent
MaxCancelCalls == 2   \* invocations of one cancellation handle
NUrls == 3            \* relay urls the user and the pool deal with
NDefault == 2         \* how many of them are the bootstrap relays
MaxPools == 2         \* pools created in one run
KeyBytes == 1         \* bytes of a key (32 in the protocol)
NFeedEvents == 2      \* distinct events the relays hold for the feed's filter
MaxRuns == 2          \* runs of the effect of useNostrEvents
MaxRefetch == 1       \* refetch calls awaiting their fetch at one time
MaxPendingRuns == 1   \* runs of the effect where the pending list is followed
MaxProfileFetches == 3 \* fetchProfile calls of one useNostrProfile
NPubkeys == 2         \* pubkeys whose profile is looked at

Relays == 1..NRelays
PubRelays == 1..MaxUrls

\* An event id is a fixed-width hex digest; the model keeps its rank in
\* lexicographic order, so that id comparison is integer comparison.
Ids == 1..NEvents

\* created_at of the event with a given id: 100, 200, 200, 300, 300, ...
\* (an id is a digest over created_at, so it determines it).
CreatedAtOf(id) == 100 * ((id + 2) \div 2)

EventOf(id) == [id |-> id, created_at |-> CreatedAtOf(id)]

IdsOf(s) == { s[i].id : i \in 1..Len(s) }

----------------------------------------------------------------------------
(* Array.prototype.sort((a, b) => b.created_at - a.created_at): a stable    *)
(* sort, newest first.                                                      *)

RECURSIVE InsertDesc(_, _)
InsertDesc(e, s) ==
    IF s = <<>> THEN <<e>>
    ELSE IF Head(s).created_at >= e.created_at
         THEN <<Head(s)>> \o InsertDesc(e, Tail(s))
         ELSE <<e>> \o s

RECURSIVE SortByCreatedAtDesc(_)
SortByCreatedAtDesc(s) ==
    IF s = <<>> THEN <<>>
    ELSE InsertDesc(s[Len(s)], SortByCreatedAtDesc(SubSeq(s, 1, Len(s) - 1)))

---------------------------------------------------------------------------------------------------------------------------
(* Query *)

Settled(st) == st \in {"eose", "failed"}

\* Variant: no id set is kept.
PoolAlreadyHaveEventM(known, id) == FALSE

\* SimplePool.subscribeMany: an event whose id the pool has already handed on
\* for this request is dropped, otherwise it goes to onevent.
PoolAlreadyHaveEvent(known, id) == id \in known

\* querySync's onevent: events.push(event)
PoolQueryOnEvent(events, known, id) ==
    IF PoolAlreadyHaveEvent(known, id) THEN events ELSE Append(events, EventOf(id))

\* querySync resolves once every per-relay request has closed: end of stored
\* events, connection error, or maxWait elapsed.
PoolQueryClosed(status) == \A r \in Relays : Settled(status[r])

\* Variant: a failed relay makes the whole call take the catch.
fetchEventsM(q) ==
    IF \E r \in Relays : q.status[r] = "failed" THEN <<>> ELSE q.events

\* fetchEvents: return await pool.querySync(...).  q is the pool's view of the
\* request, [events, status]; the pool absorbs per-relay failures, so the
\* catch (return []) is not reached by them.
fetchEvents(q) == q.events

\* Variant: events[0] without the sort.
fetchUserMetadataM(events) ==
    IF Len(events) > 0 THEN <<events[1]>> ELSE <<>>

\* fetchUserMetadata: sort newest first, then events[0] or null.
fetchUserMetadata(events) ==
    IF Len(events) > 0 THEN <<SortByCreatedAtDesc(events)[1]>> ELSE <<>>

QueryIdle ==
    /\ qPhase = "idle"
    /\ qStatus = [r \in Relays |-> "pending"]
    /\ qFrom = [id \in Ids |-> 0]
    /\ qOverlap = FALSE
    /\ qKnownIds = {}
    /\ qEvents = <<>>
    /\ fetchRet = <<>>
    /\ metaRet = <<>>

QInit ==
    /\ QueryIdle
    /\ obsAllFailed = {}
    /\ obsLegitEmpty = {}

\* A caller invokes fetchEvents (directly or through fetchUserMetadata):
\* pool.querySync fans the filter out to every relay.
QueryStart ==
    /\ qPhase \in {"idle", "done"}
    /\ qPhase' = "open"
    /\ qStatus' = [r \in Relays |-> "pending"]
    /\ qFrom' = [id \in Ids |-> 0]
    /\ qOverlap' = FALSE
    /\ qKnownIds' = {}
    /\ qEvents' = <<>>
    /\ fetchRet' = <<>>
    /\ metaRet' = <<>>
    /\ UNCHANGED <<obsAllFailed, obsLegitEmpty>>

\* Relay r delivers a stored event on the request.
QueryRelayEvent(r, id) ==
    /\ qPhase = "open"
    /\ qStatus[r] = "pending"
    /\ qFrom' = IF qFrom[id] = 0 THEN [qFrom EXCEPT ![id] = r] ELSE qFrom
    /\ qOverlap' = (qOverlap \/ qFrom[id] \notin {0, r})
    /\ qEvents' = PoolQueryOnEvent(qEvents, qKnownIds, id)
    /\ qKnownIds' = qKnownIds \cup {id}
    /\ UNCHANGED <<qPhase, qStatus, fetchRet, metaRet, obsAllFailed, obsLegitEmpty>>

\* Relay r ends its part: end of stored events ("eose"), or a connection
\* error or maxWait elapsing first ("failed").
QueryRelaySettle(r, how) ==
    /\ qPhase = "open"
    /\ qStatus[r] = "pending"
    /\ qStatus' = [qStatus EXCEPT ![r] = how]
    /\ UNCHANGED <<qPhase, qFrom, qOverlap, qKnownIds, qEvents, fetchRet, metaRet,
                   obsAllFailed, obsLegitEmpty>>

\* The ids some relay delivered during the query.
Delivered == { id \in Ids : qFrom[id] # 0 }

AllRelaysUnreachable ==
    /\ \A r \in Relays : qStatus[r] = "failed"
    /\ Delivered = {}

LegitimatelyEmpty ==
    /\ \A r \in Relays : qStatus[r] = "eose"
    /\ Delivered = {}

\* querySync resolves and fetchEvents returns to its caller; metaRet is what
\* fetchUserMetadata, which awaits the same call, then returns.
QueryResolve ==
    /\ qPhase = "open"
    /\ PoolQueryClosed(qStatus)
    /\ qPhase' = "done"
    /\ fetchRet' = fetchEvents([events |-> qEvents, status |-> qStatus])
    /\ metaRet' = fetchUserMetadata(fetchRet')
    /\ obsAllFailed' = IF AllRelaysUnreachable
                       THEN obsAllFailed \cup {fetchRet'} ELSE obsAllFailed
    /\ obsLegitEmpty' = IF LegitimatelyEmpty
                        THEN obsLegitEmpty \cup {fetchRet'} ELSE obsLegitEmpty
    /\ UNCHANGED <<qStatus, qFrom, qOverlap, qKnownIds, qEvents>>

----------------------------------------------------------------------------
(* Publish *)

PublishIdle ==
    /\ pPhase = "idle"
    /\ pRelayUrls = <<>>
    /\ pPromises = <<>>
    /\ pResults = <<>>

UrlsOf(urls) == { urls[i] : i \in 1..Len(urls) }

\* The relayUrls arguments tried: every list of 1..MaxUrls relay URLs.
UrlLists == UNION { [1..n -> PubRelays] : n \in 1..MaxUrls }

PromiseSettled(p) == p \in {"fulfilled", "rejected", "timedout"}

\* Variant: waits until every promise is fulfilled.
AllSettledM(promises) == \A i \in 1..Len(promises) : promises[i] = "fulfilled"

\* await Promise.allSettled(publishPromises): resumes once every promise has
\* settled, whichever way.
AllSettled(promises) == \A i \in 1..Len(promises) : PromiseSettled(promises[i])

\* Variant: Promise.all, whose rejection skips the forEach.
PublishResultsM(urls, promises) ==
    IF \E i \in 1..Len(urls) : promises[i] # "fulfilled"
    THEN [u \in UrlsOf(urls) |-> FALSE]
    ELSE [u \in UrlsOf(urls) |-> TRUE]

\* results[relayUrl] = false for every URL, then settledResults.forEach sets
\* results[relayUrls[index]] = true where the promise was fulfilled.
PublishResults(urls, promises) ==
    [u \in UrlsOf(urls) |->
        \E i \in 1..Len(urls) : urls[i] = u /\ promises[i] = "fulfilled"]

\* publishEvent(event, relayUrls): pool.publish returns one promise per URL.
\* The outer catch (throw 'Failed to publish event') guards getPool and
\* pool.publish themselves; no relay answer reaches it.
PublishStart(urls) ==
    /\ pPhase \in {"idle", "resolved"}
    /\ pPhase' = "pending"
    /\ pRelayUrls' = urls
    /\ pPromises' = [i \in 1..Len(urls) |-> "pending"]
    /\ pResults' = <<>>

\* The relay behind promise i acknowledges the event (OK true).
PublishRelayAck(i) ==
    /\ pPhase = "pending"
    /\ i \in 1..Len(pPromises)
    /\ pPromises[i] = "pending"
    /\ pPromises' = [pPromises EXCEPT ![i] = "fulfilled"]
    /\ UNCHANGED <<pPhase, pRelayUrls, pResults>>

\* The relay behind promise i rejects the event or cannot be reached.
PublishRelayReject(i) ==
    /\ pPhase = "pending"
    /\ i \in 1..Len(pPromises)
    /\ pPromises[i] = "pending"
    /\ pPromises' = [pPromises EXCEPT ![i] = "rejected"]
    /\ UNCHANGED <<pPhase, pRelayUrls, pResults>>

\* The pool's publish deadline elapses for promise i with no answer: the pool
\* rejects the promise.
PoolPublishTimeout(i) ==
    /\ pPhase = "pending"
    /\ i \in 1..Len(pPromises)
    /\ pPromises[i] = "pending"
    /\ pPromises' = [pPromises EXCEPT ![i] = "timedout"]
    /\ UNCHANGED <<pPhase, pRelayUrls, pResults>>

\* allSettled resumes publishEvent, which fills results and returns it.
PublishReturn ==
    /\ pPhase = "pending"
    /\ AllSettled(pPromises)
    /\ pPhase' = "resolved"
    /\ pResults' = PublishResults(pRelayUrls, pPromises)
    /\ UNCHANGED <<pRelayUrls, pPromises>>

----------------------------------------------------------------------------
(* Subscribe *)

SubIdle ==
    /\ sPhase = "none"
    /\ sOpen = [r \in Relays |-> FALSE]
    /\ sFrom = [id \in Ids |-> 0]
    /\ sOverlap = FALSE
    /\ lateEvents = FALSE
    /\ sKnownIds = {}
    /\ onEventLog = <<>>
    /\ cancelCalls = 0
    /\ unsubRef = FALSE

\* SimplePool.subscribeMany opens one subscription per listed relay.
PoolSubscribeMany == [r \in Relays |-> TRUE]

\* subscription.close(): every per-relay subscription is closed.
PoolSubClose(open) == [r \in Relays |-> FALSE]

\* Variant: the closure does not close the subscription.
CancelHandleM(open) == open

\* The handle subscribeToEvents returns: () => { subscription.close(); }
CancelHandle(open) == PoolSubClose(open)

\* The onevent option subscribeToEvents passes: onEvent(event, "unknown-relay")
SubOnEvent(log, id) == Append(log, id)

\* subscribeToEvents(filter, onEvent, relayUrls), as the effect of
\* useNostrEvents calls it: the returned handle goes to unsubRef.current.
Subscribe ==
    /\ sPhase \in {"none", "cancelled"}
    /\ sPhase' = "open"
    /\ sOpen' = PoolSubscribeMany
    /\ sFrom' = [id \in Ids |-> 0]
    /\ sOverlap' = FALSE
    /\ lateEvents' = FALSE
    /\ sKnownIds' = {}
    /\ onEventLog' = <<>>
    /\ cancelCalls' = 0
    /\ unsubRef' = TRUE

\* Relay r pushes an event on its open subscription.
SubRelayEvent(r, id) ==
    /\ sOpen[r]
    /\ sFrom' = IF sFrom[id] = 0 THEN [sFrom EXCEPT ![id] = r] ELSE sFrom
    /\ sOverlap' = (sOverlap \/ sFrom[id] \notin {0, r})
    /\ onEventLog' = IF PoolAlreadyHaveEvent(sKnownIds, id)
                     THEN onEventLog ELSE SubOnEvent(onEventLog, id)
    /\ lateEvents' = (lateEvents \/ (cancelCalls > 0 /\ onEventLog' # onEventLog))
    /\ sKnownIds' = sKnownIds \cup {id}
    /\ UNCHANGED <<sPhase, sOpen, cancelCalls, unsubRef>>

\* The connection to relay r drops: its subscription ends.
SubRelayDrop(r) ==
    /\ sOpen[r]
    /\ sOpen' = [sOpen EXCEPT ![r] = FALSE]
    /\ UNCHANGED <<sPhase, sFrom, sOverlap, lateEvents, sKnownIds, onEventLog,
                   cancelCalls, unsubRef>>

\* Some holder of the handle invokes it.
CancelCall ==
    /\ sPhase \in {"open", "cancelled"}
    /\ cancelCalls < MaxCancelCalls
    /\ sOpen' = CancelHandle(sOpen)
    /\ sPhase' = "cancelled"
    /\ cancelCalls' = cancelCalls + 1
    /\ UNCHANGED <<sFrom, sOverlap, lateEvents, sKnownIds, onEventLog, unsubRef>>

\* The cleanup of the useNostrEvents effect:
\* if (unsubRef.current) { unsubRef.current(); unsubRef.current = null; }
HookCleanup ==
    /\ sPhase \in {"open", "cancelled"}
    /\ IF unsubRef
       THEN /\ cancelCalls < MaxCancelCalls
            /\ sOpen' = CancelHandle(sOpen)
            /\ sPhase' = "cancelled"
            /\ cancelCalls' = cancelCalls + 1
            /\ unsubRef' = FALSE
       ELSE UNCHANGED <<sOpen, sPhase, cancelCalls, unsubRef>>
    /\ UNCHANGED <<sFrom, sOverlap, lateEvents, sKnownIds, onEventLog>>

----------------------------------------------------------------------------
(* Relay management: relays.ts *)

Urls == 1..NUrls

\* DEFAULT_RELAYS: the bootstrap list, here the first NDefault urls.
DEFAULT_RELAYS == [i \in 1..NDefault |-> i]

RangeOf(list) == {list[i] : i \in 1..Len(list)}

\* Tokens of the JSON text kept in localStorage; a url is its own token.
LBracket == NUrls + 1
RBracket == NUrls + 2
Comma    == NUrls + 3
Garbage  == NUrls + 4

RECURSIVE JSONStringifyItems(_)
JSONStringifyItems(list) ==
    IF list = <<>> THEN <<>>
    ELSE IF Len(list) = 1 THEN <<list[1]>>
    ELSE <<list[1], Comma>> \o JSONStringifyItems(Tail(list))

\* JSON.stringify(relays) of an array of strings.
JSONStringify(list) == <<LBracket>> \o JSONStringifyItems(list) \o <<RBracket>>

\* JSON.parse(text) does not throw.
JSONWellFormed(text) ==
    /\ Len(text) >= 2
    /\ text[1] = LBracket
    /\ text[Len(text)] = RBracket
    /\ LET inner == SubSeq(text, 2, Len(text) - 1) IN
         \/ inner = <<>>
         \/ /\ Len(inner) % 2 = 1
            /\ \A i \in 1..Len(inner) :
                 IF i % 2 = 1 THEN inner[i] \in Urls ELSE inner[i] = Comma

\* JSON.parse(text) of a well-formed text.
JSONParse(text) ==
    LET inner == SubSeq(text, 2, Len(text) - 1) IN
      [i \in 1..((Len(inner) + 1) \div 2) |-> inner[2 * i - 1]]

\* Variant: an empty stored list is taken for "nothing stored".
getSavedRelaysM(st) ==
    IF st = <<>> \/ ~JSONWellFormed(st) \/ JSONParse(st) = <<>>
    THEN DEFAULT_RELAYS
    ELSE JSONParse(st)

\* getSavedRelays: relays ? JSON.parse(relays) : DEFAULT_RELAYS, and
\* DEFAULT_RELAYS when reading throws.  st = <<>> is "no item stored".
getSavedRelays(st) ==
    IF st = <<>> THEN DEFAULT_RELAYS
    ELSE IF JSONWellFormed(st) THEN JSONParse(st)
    ELSE DEFAULT_RELAYS

\* saveRelays: localStorage.setItem(key, JSON.stringify(relays)).
saveRelays(list) == JSONStringify(list)

\* Variant: the pool closed last is handed out again.
getPoolM(p, gen) == IF p # 0 THEN p ELSE IF gen > 0 THEN gen ELSE 1

\* getPool: if (!pool) pool = new SimplePool(); return pool.  Pools are
\* numbered in the order they are created; gen is the number created so far.
getPool(p, gen) == IF p # 0 THEN p ELSE gen + 1

CanGetPool == pool # 0 \/ poolGen < MaxPools

\* pool.close(urls): the connections to the listed relays are closed.
PoolClose(c, urls) == c \ urls

\* Promise.all(connections) resolves: every wrapped attempt has settled.
AllAttemptsSettled(att) == \A u \in Urls : att[u] # "pending"

\* Variant: without the per-relay catch one failed attempt rejects the call.
connectOutcomeM(att) ==
    IF \E u \in Urls : att[u] = "failed"
    THEN [threw |-> TRUE, relays |-> {}]
    ELSE [threw |-> FALSE, relays |-> {u \in Urls : att[u] = "ok"}]

\* connectToRelays: a failed attempt yields null, relays.filter(Boolean) drops it.
connectOutcome(att) == [threw |-> FALSE, relays |-> {u \in Urls : att[u] = "ok"}]

Op(o, u, g, r) == [op |-> o, url |-> u, gen |-> g, reinst |-> r]
EnvOp == Op("env", 0, 0, FALSE)
NoAttempts == [u \in Urls |-> "none"]

\* The pool-creating step of getPool() as it changes the module state.
TakePool ==
    /\ CanGetPool
    /\ pool' = getPool(pool, poolGen)
    /\ poolGen' = IF pool = 0 THEN poolGen + 1 ELSE poolGen

\* This call finds no pool because closePool dropped it.
AfterClose == pool = 0 /\ closedGens # {}

RelaysIdle ==
    /\ storage = <<>>
    /\ savedArg = <<>>
    /\ pool = 0
    /\ poolGen = 0
    /\ closedGens = {}
    /\ activeRelays = {}
    /\ conns = {}
    /\ cPhase = "idle"
    /\ cKind = "many"
    /\ cAttempt = NoAttempts
    /\ cPool = 0
    /\ cRet = {}
    /\ lastOp = Op("init", 0, 0, FALSE)

\* Variant: the url is appended without looking for it in the list.
addRelayNeededM(relays, u) == u \in Urls

\* addRelay: if (!relays.includes(url))
addRelayNeeded(relays, u) == u \notin RangeOf(relays)

\* addRelay(url)
AddRelay(u) ==
    LET relays == getSavedRelays(storage) IN
    /\ IF addRelayNeeded(relays, u)
       THEN /\ storage' = saveRelays(Append(relays, u))
            /\ savedArg' = <<Append(relays, u)>>
       ELSE UNCHANGED <<storage, savedArg>>
    /\ lastOp' = Op("addRelay", u, 0, FALSE)
    /\ UNCHANGED <<pool, poolGen, closedGens, activeRelays, conns,
                   cPhase, cKind, cAttempt, cPool, cRet>>

\* removeRelay(url), with the disconnectFromRelay(url) it ends in
RemoveRelay(u) ==
    LET relays == getSavedRelays(storage)
        kept == SelectSeq(relays, LAMBDA r : r # u)
    IN
    /\ storage' = saveRelays(kept)
    /\ savedArg' = <<kept>>
    /\ IF u \in activeRelays /\ pool # 0
       THEN /\ conns' = PoolClose(conns, {u})
            /\ activeRelays' = activeRelays \ {u}
       ELSE UNCHANGED <<conns, activeRelays>>
    /\ lastOp' = Op("removeRelay", u, 0, FALSE)
    /\ UNCHANGED <<pool, poolGen, closedGens, cPhase, cKind, cAttempt, cPool, cRet>>

\* The lists given to saveRelays directly: up to NUrls urls, in any order.
RelayLists == UNION { [1..n -> Urls] : n \in 0..NUrls }

\* saveRelays(relays) called with a list of the caller's own
SaveRelays(list) ==
    /\ storage' = saveRelays(list)
    /\ savedArg' = <<list>>
    /\ lastOp' = Op("saveRelays", 0, 0, FALSE)
    /\ UNCHANGED <<pool, poolGen, closedGens, activeRelays, conns,
                   cPhase, cKind, cAttempt, cPool, cRet>>

\* The stored item is removed (site data cleared).
StorageClear ==
    /\ storage # <<>>
    /\ storage' = <<>>
    /\ savedArg' = <<>>
    /\ lastOp' = EnvOp
    /\ UNCHANGED <<pool, poolGen, closedGens, activeRelays, conns,
                   cPhase, cKind, cAttempt, cPool, cRet>>

\* The stored item is overwritten with text that is no JSON.
StorageCorrupt ==
    /\ storage # <<Garbage>>
    /\ storage' = <<Garbage>>
    /\ savedArg' = <<>>
    /\ lastOp' = EnvOp
    /\ UNCHANGED <<pool, poolGen, closedGens, activeRelays, conns,
                   cPhase, cKind, cAttempt, cPool, cRet>>

\* A caller invokes getPool() itself.
GetPool ==
    /\ TakePool
    /\ lastOp' = Op("getPool", 0, pool', FALSE)
    /\ UNCHANGED <<storage, savedArg, closedGens, activeRelays, conns,
                   cPhase, cKind, cAttempt, cPool, cRet>>

\* publishEvent / fetchEvents / subscribeToEvents with the saved relays: the
\* pool is taken from getPool() and opens a connection to each listed relay
\* it can reach (opened).
PoolUse(opened) ==
    /\ opened \subseteq RangeOf(getSavedRelays(storage))
    /\ TakePool
    /\ conns' = conns \cup opened
    /\ lastOp' = Op("use", 0, pool', AfterClose)
    /\ UNCHANGED <<storage, savedArg, closedGens, activeRelays,
                   cPhase, cKind, cAttempt, cPool, cRet>>

\* closePool()
ClosePool ==
    /\ IF pool # 0
       THEN /\ conns' = PoolClose(conns, RangeOf(getSavedRelays(storage)))
            /\ closedGens' = closedGens \cup {pool}
            /\ pool' = 0
            /\ activeRelays' = {}
       ELSE UNCHANGED <<conns, closedGens, pool, activeRelays>>
    /\ lastOp' = Op("closePool", 0, pool, FALSE)
    /\ UNCHANGED <<storage, savedArg, poolGen, cPhase, cKind, cAttempt, cPool, cRet>>

\* connectToRelays(urls = getSavedRelays()) up to its await
ConnectToRelaysStart ==
    /\ cPhase # "pending"
    /\ TakePool
    /\ cPhase' = "pending"
    /\ cKind' = "many"
    /\ cPool' = pool'
    /\ cAttempt' = [u \in Urls |->
                      IF u \in RangeOf(getSavedRelays(storage)) THEN "pending" ELSE "none"]
    /\ cRet' = {}
    /\ lastOp' = Op("connectToRelays", 0, pool', AfterClose)
    /\ UNCHANGED <<storage, savedArg, closedGens, activeRelays, conns>>

\* connectToRelay(url) up to its await, or its early return of activeRelays[url]
ConnectToRelayStart(u) ==
    /\ cPhase # "pending"
    /\ cKind' = "one"
    /\ IF u \in activeRelays
       THEN /\ cPhase' = "returned"
            /\ cRet' = {u}
            /\ cAttempt' = NoAttempts
            /\ lastOp' = Op("connectToRelay", u, 0, FALSE)
            /\ UNCHANGED <<pool, poolGen, cPool>>
       ELSE /\ TakePool
            /\ cPhase' = "pending"
            /\ cRet' = {}
            /\ cPool' = pool'
            /\ cAttempt' = [NoAttempts EXCEPT ![u] = "pending"]
            /\ lastOp' = Op("connectToRelay", u, pool', AfterClose)
    /\ UNCHANGED <<storage, savedArg, closedGens, activeRelays, conns>>

\* p.ensureRelay(url) resolves: activeRelays[url] = relay
ConnectAttemptOk(u) ==
    /\ cPhase = "pending"
    /\ cAttempt[u] = "pending"
    /\ cAttempt' = [cAttempt EXCEPT ![u] = "ok"]
    /\ activeRelays' = activeRelays \cup {u}
    /\ conns' = conns \cup {u}
    /\ IF cKind = "one"
       THEN cPhase' = "returned" /\ cRet' = {u}
       ELSE UNCHANGED <<cPhase, cRet>>
    /\ lastOp' = EnvOp
    /\ UNCHANGED <<storage, savedArg, pool, poolGen, closedGens, cKind, cPool>>

\* p.ensureRelay(url) rejects
ConnectAttemptFail(u) ==
    /\ cPhase = "pending"
    /\ cAttempt[u] = "pending"
    /\ cAttempt' = [cAttempt EXCEPT ![u] = "failed"]
    /\ IF cKind = "one"
       THEN cPhase' = "threw"
       ELSE UNCHANGED cPhase
    /\ lastOp' = EnvOp
    /\ UNCHANGED <<storage, savedArg, pool, poolGen, closedGens, activeRelays, conns,
                   cKind, cPool, cRet>>

\* connectToRelays after its await
ConnectToRelaysReturn ==
    /\ cPhase = "pending"
    /\ cKind = "many"
    /\ AllAttemptsSettled(cAttempt)
    /\ cPhase' = IF connectOutcome(cAttempt).threw THEN "threw" ELSE "returned"
    /\ cRet' = connectOutcome(cAttempt).relays
    /\ lastOp' = EnvOp
    /\ UNCHANGED <<storage, savedArg, pool, poolGen, closedGens, activeRelays, conns,
                   cKind, cAttempt, cPool>>

\* The transport of an open connection drops.
TransportDrop(u) ==
    /\ u \in conns
    /\ conns' = conns \ {u}
    /\ lastOp' = EnvOp
    /\ UNCHANGED <<storage, savedArg, pool, poolGen, closedGens, activeRelays,
                   cPhase, cKind, cAttempt, cPool, cRet>>

\* isRelayActive(url) and getActiveRelayUrls()
isRelayActive(u) == u \in activeRelays
getActiveRelayUrls == activeRelays

----------------------------------------------------------------------------
(* Building and posting events: events.ts, NoteCard.handleLike *)

\* getPrivateKey() at the call: null, a well-formed key, or a stored string
\* that hexToBytes / finalizeEvent reject.
KeyStates == {"absent", "valid", "malformed"}

PostOps == {"createNoteEvent", "createReactionEvent", "createAndPublishNote",
            "updateUserMetadata", "handleLike"}

\* createNoteEvent / createReactionEvent, and the same steps inside
\* updateUserMetadata: throw 'No private key available' before the try; a
\* failure while signing is caught, logged and turned into null.
buildEvent(key) ==
    IF key = "absent" THEN "threw"
    ELSE IF key = "malformed" THEN "null"
    ELSE "event"

\* Variant: the reaction builder publishes what it built.
PublishesM(op) ==
    op \in {"createAndPublishNote", "updateUserMetadata", "handleLike",
            "createReactionEvent"}

\* The operations whose body calls publishEvent.
Publishes(op) == op \in {"createAndPublishNote", "updateUserMetadata", "handleLike"}

\* What the operation hands its caller when no event was built:
\*   createAndPublishNote  catch -> null; if (!event) return null
\*   handleLike            catch -> console.error; if (reactionEvent) skipped
\*   the others            as buildEvent
unbuiltOutcome(op, key) ==
    IF op = "createAndPublishNote" THEN "null"
    ELSE IF op = "handleLike" THEN "nothing"
    ELSE buildEvent(key)

\* What the operation hands its caller once publishEvent has returned: the
\* event (setIsLiked(true) in handleLike); the results map is dropped.
publishedOutcome(op) == IF op = "handleLike" THEN "liked" ELSE "event"

PostIdle ==
    /\ eOp = "none"
    /\ eKey = "valid"
    /\ ePhase = "idle"
    /\ eRet = "none"
    /\ ePublishCalled = FALSE

\* One of the operations is called with the key in state key; a publishing
\* operation that built its event goes on to publishEvent(event, urls), urls
\* being the relayUrls parameter (getSavedRelays() when the caller gives none).
PostCall(op, key, urls) ==
    /\ ePhase # "publishing"
    /\ eOp' = op
    /\ eKey' = key
    /\ IF buildEvent(key) = "event" /\ Publishes(op)
       THEN /\ PublishStart(urls)
            /\ ePhase' = "publishing"
            /\ eRet' = "none"
            /\ ePublishCalled' = TRUE
       ELSE /\ UNCHANGED pvars
            /\ ePhase' = "done"
            /\ eRet' = IF buildEvent(key) = "event" THEN "event"
                       ELSE unbuiltOutcome(op, key)
            /\ ePublishCalled' = FALSE

\* await publishEvent(...) resumes the operation, which returns.
PostReturn ==
    /\ ePhase = "publishing"
    /\ pPhase = "resolved"
    /\ ePhase' = "done"
    /\ eRet' = publishedOutcome(eOp)
    /\ UNCHANGED <<eOp, eKey, ePublishCalled, pvars>>

----------------------------------------------------------------------------
(* Profile: useNostrProfile *)

ProfileCalls == 1..MaxProfileFetches
Pubkeys == 1..NPubkeys

ProfileIdle ==
    /\ profEvent = <<>>
    /\ profLoading = FALSE
    /\ lateNewest = 0
    /\ curPubkey = 0
    /\ pfCount = 0
    /\ pfState = [c \in ProfileCalls |-> "none"]
    /\ pfKey = [c \in ProfileCalls |-> 0]
    /\ pfShown = 0

\* fetchProfile up to its await of fetchUserMetadata(pubkey, relayUrls)
FetchProfile ==
    /\ ~profLoading
    /\ QueryStart
    /\ profLoading' = TRUE
    /\ UNCHANGED <<profEvent, lateNewest, curPubkey, pfCount, pfState, pfKey, pfShown>>

\* fetchProfile after the await: setEvent(metadataEvent)
FetchProfileDone ==
    /\ profLoading
    /\ qPhase = "done"
    /\ profEvent' = metaRet
    /\ profLoading' = FALSE
    /\ UNCHANGED <<qvars, lateNewest, curPubkey, pfCount, pfState, pfKey, pfShown>>

\* A relay that had not answered when the query resolved sends a metadata
\* event afterwards.  The query's subscription is closed and useNostrProfile
\* holds no other: no code of the client runs.
LateRelayEvent(r, id) ==
    /\ qPhase = "done"
    /\ qStatus[r] = "failed"
    /\ lateNewest' = IF CreatedAtOf(id) > lateNewest THEN CreatedAtOf(id) ELSE lateNewest
    /\ UNCHANGED <<qvars, profEvent, profLoading, curPubkey, pfCount, pfState, pfKey,
                   pfShown>>

\* fetchProfile after its await: setEvent(metadataEvent) and setProfile(...),
\* whichever call it is.
profileStored(shown, c) == c

\* fetchProfile is called: by the effect at mount and when pubkey changes
\* (pk is the pubkey of that render), or by the page through refetch (pk is
\* the current one).  It closes over pk and awaits fetchUserMetadata.
CallFetchProfile(pk) ==
    /\ pfCount < MaxProfileFetches
    /\ curPubkey' = pk
    /\ pfCount' = pfCount + 1
    /\ pfState' = [pfState EXCEPT ![pfCount + 1] = "pending"]
    /\ pfKey' = [pfKey EXCEPT ![pfCount + 1] = pk]
    /\ UNCHANGED <<profEvent, profLoading, lateNewest, pfShown>>

\* The fetchUserMetadata a call awaits resolves; the call stores its result.
ProfileFetchSettles(c) ==
    /\ pfState[c] = "pending"
    /\ pfState' = [pfState EXCEPT ![c] = "settled"]
    /\ pfShown' = profileStored(pfShown, c)
    /\ UNCHANGED <<profEvent, profLoading, lateNewest, curPubkey, pfCount, pfKey>>

----------------------------------------------------------------------------
(* Keys: keys.ts over nip19 and the hex helpers *)

\* A hex digit is a number: 0..15 are '0'..'9', 'a'..'f'; 16..21 are 'A'..'F'.
LowerDigits == {0, 9, 10, 15}
UpperDigits == {16, 21}
NibbleOf(c) == IF c <= 15 THEN c ELSE c - 6

\* The hex strings tried: every string of 2 * KeyBytes of these digits.
HexStrings == [1..(2 * KeyBytes) -> LowerDigits \cup UpperDigits]
Canonical(h) == \A i \in 1..Len(h) : h[i] \in 0..15

RECURSIVE Pow(_, _)
Pow(b, n) == IF n = 0 THEN 1 ELSE b * Pow(b, n - 1)

\* The number a sequence of digits of the given base denotes.
RECURSIVE NumberOf(_, _)
NumberOf(digits, base) ==
    IF digits = <<>> THEN 0
    ELSE NumberOf(SubSeq(digits, 1, Len(digits) - 1), base) * base + digits[Len(digits)]

\* The n digits of the given base that denote the number v.
DigitsOf(v, base, n) == [i \in 1..n |-> (v \div Pow(base, n - i)) % base]

Value(t, v) == [t |-> t, v |-> v]
Thrown == Value("error", <<>>)

\* hexToBytes: two digits a byte; an odd length throws, and so does an
\* upper-case digit in a build whose hexToBytes does not take them.
hexToBytes(h) ==
    IF Len(h) % 2 # 0 \/ (~libFoldsCase /\ ~Canonical(h)) THEN Thrown
    ELSE Value("bytes",
               [i \in 1..(Len(h) \div 2) |->
                   16 * NibbleOf(h[2 * i - 1]) + NibbleOf(h[2 * i])])

\* bytesToHex: two lower-case digits a byte.
bytesToHex(b) ==
    Value("hex", [i \in 1..(2 * Len(b)) |->
                    IF i % 2 = 1 THEN b[(i + 1) \div 2] \div 16 ELSE b[i \div 2] % 16])

\* bech32 data part: the bytes regrouped into 5-bit words, zero bits added
\* at the end.
WordCount(n) == (8 * n + 4) \div 5
ToWords(b) ==
    LET w == WordCount(Len(b))
        pad == 5 * w - 8 * Len(b)
    IN DigitsOf(NumberOf(b, 256) * Pow(2, pad), 32, w)

\* The inverse regrouping; it fails on padding that is too long or not zero.
FromWordsOk(ws) ==
    LET n == (5 * Len(ws)) \div 8
        pad == 5 * Len(ws) - 8 * n
    IN pad < 5 /\ NumberOf(ws, 32) % Pow(2, pad) = 0
FromWords(ws) ==
    LET n == (5 * Len(ws)) \div 8
        pad == 5 * Len(ws) - 8 * n
    IN DigitsOf(NumberOf(ws, 32) \div Pow(2, pad), 256, n)

HrpCode(hrp) == IF hrp = "npub" THEN 1 ELSE IF hrp = "nsec" THEN 2 ELSE 3

\* The checksum of a display form: a digest of the prefix and the words.
RECURSIVE WeightedSum(_)
WeightedSum(ws) ==
    IF ws = <<>> THEN 0
    ELSE WeightedSum(SubSeq(ws, 1, Len(ws) - 1)) + Len(ws) * ws[Len(ws)]
Checksum(hrp, ws) == (7 * HrpCode(hrp) + WeightedSum(ws)) % 32

Bech32(hrp, b) == [hrp |-> hrp, words |-> ToWords(b), chk |-> Checksum(hrp, ToWords(b))]

\* nip19.npubEncode(hex) and nip19.nsecEncode(bytes)
npubEncode(h) ==
    IF hexToBytes(h).t = "error" THEN Thrown
    ELSE Value("display", Bech32("npub", hexToBytes(h).v))
nsecEncode(b) == Value("display", Bech32("nsec", b))

\* nip19.decode(d): one decoder for every prefix.  It throws on a checksum
\* that does not match, on an unknown prefix and on data of the wrong
\* length; data is the hex string for an npub and the bytes for an nsec.
decode(d) ==
    IF \/ d.chk # Checksum(d.hrp, d.words)
       \/ d.hrp \notin {"npub", "nsec"}
       \/ ~FromWordsOk(d.words)
       \/ Len(FromWords(d.words)) # KeyBytes
    THEN Thrown
    ELSE IF d.hrp = "npub" THEN bytesToHex(FromWords(d.words))
    ELSE Value("bytes", FromWords(d.words))

\* hexToNpub
hexToNpub(h) == npubEncode(h)

\* hexToNsec
hexToNsec(h) == IF hexToBytes(h).t = "error" THEN Thrown ELSE nsecEncode(hexToBytes(h).v)

\* npubToHex: const { data } = nip19.decode(npub); return data as string;
\* the catch rethrows 'Invalid npub format'.
npubToHex(d) == IF decode(d).t = "error" THEN Thrown ELSE decode(d)

\* Variant: data is returned as it is, as npubToHex does.
nsecToHexM(d) == IF decode(d).t = "error" THEN Thrown ELSE decode(d)

\* nsecToHex: return bytesToHex(data as Uint8Array); the catch rethrows
\* 'Invalid nsec format'.  data is a string when d is an npub: bytesToHex
\* then throws or returns text that is no key, as the build has it.
nsecToHex(d) ==
    IF decode(d).t = "error" THEN Thrown
    ELSE IF decode(d).t = "bytes" THEN bytesToHex(decode(d).v)
    ELSE IF libChecksBytes THEN Thrown
    ELSE Value("hex", <<>>)

\* The display forms given to the decoders: the encodings of the keys under
\* both prefixes, and of each a copy with a wrong checksum, one with a word
\* cut off and one with a prefix nip19 does not know.
WellFormedForms ==
    { Bech32(hrp, hexToBytes(h).v) :
        hrp \in {"npub", "nsec"}, h \in {x \in HexStrings : Canonical(x)} }
MalformedForms ==
    UNION { { [d EXCEPT !.chk = (d.chk + 1) % 32],
              [d EXCEPT !.words = SubSeq(d.words, 1, Len(d.words) - 1),
                        !.chk = Checksum(d.hrp, SubSeq(d.words, 1, Len(d.words) - 1))],
              [d EXCEPT !.hrp = "nxyz", !.chk = Checksum("nxyz", d.words)] }
            : d \in WellFormedForms }
DisplayForms == WellFormedForms \cup MalformedForms

NoForm == [hrp |-> "none", words |-> <<>>, chk |-> 0]

KeysIdle ==
    /\ libFoldsCase = TRUE
    /\ libChecksBytes = TRUE
    /\ kOp = "none"
    /\ kHex = <<>>
    /\ kIn = NoForm
    /\ kOut = Value("none", <<>>)

\* hexToNpub(h) / hexToNsec(h) is called.
EncodeKey(op, h) ==
    /\ kOp = "none"
    /\ kOp' = op
    /\ kHex' = h
    /\ kIn' = NoForm
    /\ kOut' = IF op = "hexToNpub" THEN hexToNpub(h) ELSE hexToNsec(h)
    /\ UNCHANGED <<libFoldsCase, libChecksBytes>>

\* npubToHex / nsecToHex is called on the display form just produced.
DecodeBack(op) ==
    /\ kOp \in {"hexToNpub", "hexToNsec"}
    /\ kOut.t = "display"
    /\ kOp' = op
    /\ kIn' = kOut.v
    /\ kOut' = IF op = "npubToHex" THEN npubToHex(kOut.v) ELSE nsecToHex(kOut.v)
    /\ UNCHANGED <<libFoldsCase, libChecksBytes, kHex>>

\* The caller has its answer; the next conversion starts afresh.
KeyCallOver ==
    /\ kOp # "none"
    /\ kOp' = "none"
    /\ kHex' = <<>>
    /\ kIn' = NoForm
    /\ kOut' = Value("none", <<>>)
    /\ UNCHANGED <<libFoldsCase, libChecksBytes>>

\* npubToHex / nsecToHex is called on a display form from elsewhere.
DecodeKey(op, d) ==
    /\ kOp = "none"
    /\ kOp' = op
    /\ kHex' = <<>>
    /\ kIn' = d
    /\ kOut' = IF op = "npubToHex" THEN npubToHex(d) ELSE nsecToHex(d)
    /\ UNCHANGED <<libFoldsCase, libChecksBytes>>

----------------------------------------------------------------------------
(* useNostrEvents: the event list of a feed.  hooks.ts holds the hook with  *)
(* one list; the variant with a pending list (autoUpdate, loadNewEvents)    *)
(* differs in its subscription callback and in what a fetch resets.  Both   *)
(* are used with their defaults enabled, subscribe and initialFetch.        *)

Runs == 1..MaxRuns
FeedIds == 1..NFeedEvents

\* What fetchEvents resolves to: the events the relays held for the filter,
\* each id once, in the order they arrived.
FetchResults ==
    { res \in UNION { [1..n -> { EventOf(id) : id \in FeedIds }] : n \in 0..NFeedEvents } :
        \A i, j \in 1..Len(res) : i # j => res[i] # res[j] }

\* Variant: the callback only puts the event in front.
onSubEventM(prev, e) ==
    IF e.id \in IdsOf(prev) THEN prev ELSE <<e>> \o prev

\* hooks.ts, the subscription callback's setEvents(prev => ...): prev when it
\* already holds the id, else [event, ...prev] sorted newest first.
onSubEvent(prev, e) ==
    IF e.id \in IdsOf(prev) THEN prev ELSE SortByCreatedAtDesc(<<e>> \o prev)

\* Pending-list variant, the callback's duplicate test.  It reads the events
\* and pendingEvents of the render in which its effect ran; runKnown[k] holds
\* their ids, and with them the ids the pool has already handed to the
\* callback on this subscription, for which it does not call it again.
isDuplicate(known, e) == e.id \in known

\* Pending-list variant, the callback's updaters: [event, ...prev] sorted.
prependSorted(prev, e) == SortByCreatedAtDesc(<<e>> \o prev)

\* self.filter((event, index, self) => index === self.findIndex(e => e.id === event.id))
RECURSIVE uniqueEvents(_)
uniqueEvents(all) ==
    IF all = <<>> THEN <<>>
    ELSE LET init == uniqueEvents(SubSeq(all, 1, Len(all) - 1))
         IN  IF all[Len(all)].id \in IdsOf(init) THEN init
             ELSE Append(init, all[Len(all)])

\* Variant: the pending events are dropped.
applyPendingEventsM(prev, pend) == prev

\* applyPendingEvents' setEvents(prev => ...): prev and the pending events,
\* first occurrence of every id, sorted newest first.
applyPendingEvents(prev, pend) == SortByCreatedAtDesc(uniqueEvents(prev \o pend))

\* The hook as mounted with the given options, before its effect has run.
\* isLoading starts as initialFetch && enabled.
HookAtRest(wp, au) ==
    /\ withPending = wp
    /\ autoUpdate = au
    /\ mounted = TRUE
    /\ hEvents = <<>>
    /\ pendingEvents = <<>>
    /\ hasNewEvents = FALSE
    /\ isLoading = TRUE
    /\ nRuns = 0
    /\ runPhase = [k \in Runs |-> "none"]
    /\ runCleaned = [k \in Runs |-> FALSE]
    /\ runKnown = [k \in Runs |-> {}]
    /\ hSubOpen = [k \in Runs |-> FALSE]
    /\ hUnsubRef = 0
    /\ refetching = 0
    /\ hLast = "none"

HookIdle == HookAtRest(FALSE, FALSE)

\* The effect's cleanup: if (unsubRef.current) { unsubRef.current();
\* unsubRef.current = null }.  The handle closes the subscription of the run
\* that stored it.
CleanupEffect(open) ==
    IF hUnsubRef # 0 THEN [open EXCEPT ![hUnsubRef] = FALSE] ELSE open

\* A closed subscription runs its callback no more: what the callback knew
\* goes with it.
CallbackGone(known) ==
    IF hUnsubRef # 0 THEN [known EXCEPT ![hUnsubRef] = {}] ELSE known

\* The effect runs: at mount, and again, after the cleanup of the run before,
\* when one of its dependencies has changed.  connectAndFetch starts and
\* awaits connectToRelays.  The callback the variant will subscribe closes
\* over the events and pendingEvents of this render.
EffectRun ==
    /\ mounted
    /\ nRuns < MaxRuns
    /\ nRuns' = nRuns + 1
    /\ runPhase' = [runPhase EXCEPT ![nRuns + 1] = "connecting"]
    /\ runKnown' = IF withPending
                   THEN [CallbackGone(runKnown) EXCEPT
                            ![nRuns + 1] = IdsOf(hEvents) \cup IdsOf(pendingEvents)]
                   ELSE runKnown
    /\ runCleaned' = IF nRuns > 0 THEN [runCleaned EXCEPT ![nRuns] = TRUE]
                     ELSE runCleaned
    /\ hSubOpen' = CleanupEffect(hSubOpen)
    /\ hUnsubRef' = 0
    /\ UNCHANGED <<withPending, autoUpdate, mounted, hEvents, pendingEvents,
                   hasNewEvents, isLoading, refetching, hLast>>

\* The component unmounts: the cleanup of the last run.  State updates made
\* after this are discarded by React.
Unmount ==
    /\ mounted
    /\ nRuns > 0
    /\ mounted' = FALSE
    /\ runCleaned' = [runCleaned EXCEPT ![nRuns] = TRUE]
    /\ hSubOpen' = CleanupEffect(hSubOpen)
    /\ hUnsubRef' = 0
    /\ runKnown' = CallbackGone(runKnown)
    /\ UNCHANGED <<withPending, autoUpdate, hEvents, pendingEvents, hasNewEvents,
                   isLoading, nRuns, runPhase, refetching, hLast>>

\* fetchEventsData up to its await: setIsLoading(true).
FetchBegins ==
    isLoading' = IF mounted THEN TRUE ELSE isLoading

\* fetchEventsData after its await: sort, setEvents (the variant also empties
\* the pending list and clears hasNewEvents), finally setIsLoading(false).
FetchCompletes(res) ==
    /\ hEvents' = IF mounted THEN SortByCreatedAtDesc(res) ELSE hEvents
    /\ pendingEvents' = IF mounted /\ withPending THEN <<>> ELSE pendingEvents
    /\ hasNewEvents' = IF mounted /\ withPending THEN FALSE ELSE hasNewEvents
    /\ isLoading' = IF mounted THEN FALSE ELSE isLoading
    /\ hLast' = IF mounted THEN "fetch" ELSE hLast

\* connectAndFetch: await connectToRelays(relayUrls) is over (it does not
\* throw); initialFetch, so fetchEventsData is called and awaited.
ConnectDone(k) ==
    /\ runPhase[k] = "connecting"
    /\ runPhase' = [runPhase EXCEPT ![k] = "fetching"]
    /\ FetchBegins
    /\ UNCHANGED <<withPending, autoUpdate, mounted, hEvents, pendingEvents,
                   hasNewEvents, nRuns, runCleaned, runKnown, hSubOpen, hUnsubRef,
                   refetching, hLast>>

\* The initial fetch of run k resolves.
FetchSettle(k, res) ==
    /\ runPhase[k] = "fetching"
    /\ runPhase' = [runPhase EXCEPT ![k] = "fetched"]
    /\ FetchCompletes(res)
    /\ UNCHANGED <<withPending, autoUpdate, mounted, nRuns, runCleaned, runKnown,
                   hSubOpen, hUnsubRef, refetching>>

\* connectAndFetch, if (subscribe): a handle left in unsubRef.current is
\* invoked, then subscribeToEvents opens the subscription and its handle is
\* stored.
StartSubscription(k) ==
    /\ runPhase[k] = "fetched"
    /\ runPhase' = [runPhase EXCEPT ![k] = "subscribed"]
    /\ hSubOpen' = [CleanupEffect(hSubOpen) EXCEPT ![k] = TRUE]
    /\ hUnsubRef' = k
    /\ runKnown' = CallbackGone(runKnown)
    /\ UNCHANGED <<withPending, autoUpdate, mounted, hEvents, pendingEvents,
                   hasNewEvents, isLoading, nRuns, runCleaned, refetching, hLast>>

\* hooks.ts: the pool runs the subscription's callback.  (The callback
\* passes over an id the list holds, so the pool's own filter of repeated
\* ids changes nothing here.)
SubscriptionEvent(k, id) ==
    /\ ~withPending
    /\ hSubOpen[k]
    /\ mounted
    /\ hEvents' = onSubEvent(hEvents, EventOf(id))
    /\ hLast' = IF hEvents' # hEvents THEN "event" ELSE hLast
    /\ UNCHANGED <<withPending, autoUpdate, mounted, pendingEvents, hasNewEvents,
                   isLoading, nRuns, runPhase, runCleaned, runKnown, hSubOpen,
                   hUnsubRef, refetching>>

\* Pending-list variant: the pool runs the subscription's callback for an id
\* that is new to the subscription and that the callback's duplicate test
\* lets through.
PendingSubscriptionEvent(k, id) ==
    /\ withPending
    /\ hSubOpen[k]
    /\ mounted
    /\ ~isDuplicate(runKnown[k], EventOf(id))
    /\ runKnown' = [runKnown EXCEPT ![k] = @ \cup {id}]
    /\ IF autoUpdate
       THEN /\ hEvents' = prependSorted(hEvents, EventOf(id))
            /\ UNCHANGED <<pendingEvents, hasNewEvents>>
       ELSE /\ pendingEvents' = prependSorted(pendingEvents, EventOf(id))
            /\ hasNewEvents' = TRUE
            /\ UNCHANGED hEvents
    /\ hLast' = "event"
    /\ UNCHANGED <<withPending, autoUpdate, mounted, isLoading, nRuns, runPhase,
                   runCleaned, hSubOpen, hUnsubRef, refetching>>

\* refetch(): the page calls fetchEventsData again.
Refetch ==
    /\ mounted
    /\ refetching < MaxRefetch
    /\ refetching' = refetching + 1
    /\ FetchBegins
    /\ UNCHANGED <<withPending, autoUpdate, mounted, hEvents, pendingEvents,
                   hasNewEvents, nRuns, runPhase, runCleaned, runKnown, hSubOpen,
                   hUnsubRef, hLast>>

\* A refetch resolves.
RefetchSettle(res) ==
    /\ refetching > 0
    /\ refetching' = refetching - 1
    /\ FetchCompletes(res)
    /\ UNCHANGED <<withPending, autoUpdate, mounted, nRuns, runPhase, runCleaned,
                   runKnown, hSubOpen, hUnsubRef>>

\* loadNewEvents(): applyPendingEvents.
LoadNewEvents ==
    /\ mounted
    /\ withPending
    /\ IF Len(pendingEvents) > 0
       THEN /\ hEvents' = applyPendingEvents(hEvents, pendingEvents)
            /\ pendingEvents' = <<>>
            /\ hasNewEvents' = FALSE
            /\ hLast' = "load"
       ELSE UNCHANGED <<hEvents, pendingEvents, hasNewEvents, hLast>>
    /\ UNCHANGED <<withPending, autoUpdate, mounted, isLoading, nRuns, runPhase,
                   runCleaned, runKnown, hSubOpen, hUnsubRef, refetching>>

\* fetchEventsData calls awaiting fetchEvents.
FetchesInFlight ==
    refetching + Cardinality({ k \in Runs : runPhase[k] = "fetching" })

----------------------------------------------------------------------------
(* Every part of the client at rest, as after loading the page *)

AllIdle ==
    /\ QInit /\ PublishIdle /\ SubIdle /\ RelaysIdle /\ PostIdle /\ ProfileIdle
    /\ KeysIdle /\ HookIdle

----------------------------------------------------------------------------
(* Specification of the query path *)

InitQuery == AllIdle

NextQuery ==
    \/ QueryStart /\ UNCHANGED <<pvars, svars, rvars, evars, fvars, kvars, hvars>>
    \/ \E r \in Relays, id \in Ids : QueryRelayEvent(r, id) /\ UNCHANGED <<pvars, svars, rvars, evars, fvars, kvars, hvars>>
    \/ \E r \in Relays, how \in {"eose", "failed"} :
          QueryRelaySettle(r, how) /\ UNCHANGED <<pvars, svars, rvars, evars, fvars, kvars, hvars>>
    \/ QueryResolve /\ UNCHANGED <<pvars, svars, rvars, evars, fvars, kvars, hvars>>

SpecQuery == InitQuery /\ [][NextQuery]_vars

----------------------------------------------------------------------------
(* Specification of the publish path *)

InitPublish == AllIdle

NextPublish ==
    \/ \E urls \in UrlLists : PublishStart(urls) /\ UNCHANGED <<qvars, svars, rvars, evars, fvars, kvars, hvars>>
    \/ \E i \in 1..MaxUrls : PublishRelayAck(i) /\ UNCHANGED <<qvars, svars, rvars, evars, fvars, kvars, hvars>>
    \/ \E i \in 1..MaxUrls : PublishRelayReject(i) /\ UNCHANGED <<qvars, svars, rvars, evars, fvars, kvars, hvars>>
    \/ \E i \in 1..MaxUrls : PoolPublishTimeout(i) /\ UNCHANGED <<qvars, svars, rvars, evars, fvars, kvars, hvars>>
    \/ PublishReturn /\ UNCHANGED <<qvars, svars, rvars, evars, fvars, kvars, hvars>>

SpecPublish == InitPublish /\ [][NextPublish]_vars

\* Every promise the pool hands out settles (the relay answers or the pool's
\* deadline fires), and a settled allSettled resumes its awaiter.
FairSpecPublish ==
    /\ InitPublish
    /\ [][NextPublish]_vars
    /\ \A i \in 1..MaxUrls : WF_vars(PoolPublishTimeout(i) /\ UNCHANGED <<qvars, svars, rvars, evars, fvars, kvars, hvars>>)
    /\ WF_vars(PublishReturn /\ UNCHANGED <<qvars, svars, rvars, evars, fvars, kvars, hvars>>)

----------------------------------------------------------------------------
(* Specification of the subscription path *)

InitSub == AllIdle

NextSub ==
    \/ Subscribe /\ UNCHANGED <<qvars, pvars, rvars, evars, fvars, kvars, hvars>>
    \/ \E r \in Relays, id \in Ids : SubRelayEvent(r, id) /\ UNCHANGED <<qvars, pvars, rvars, evars, fvars, kvars, hvars>>
    \/ \E r \in Relays : SubRelayDrop(r) /\ UNCHANGED <<qvars, pvars, rvars, evars, fvars, kvars, hvars>>
    \/ CancelCall /\ UNCHANGED <<qvars, pvars, rvars, evars, fvars, kvars, hvars>>
    \/ HookCleanup /\ UNCHANGED <<qvars, pvars, rvars, evars, fvars, kvars, hvars>>

SpecSub == InitSub /\ [][NextSub]_vars

----------------------------------------------------------------------------
(* Specification of the persisted relay list *)

InitRelayList == AllIdle

NextRelayList ==
    \/ \E u \in Urls : AddRelay(u) /\ UNCHANGED <<qvars, pvars, svars, evars, fvars, kvars, hvars>>
    \/ \E u \in Urls : RemoveRelay(u) /\ UNCHANGED <<qvars, pvars, svars, evars, fvars, kvars, hvars>>
    \/ \E list \in RelayLists :
          SaveRelays(list) /\ UNCHANGED <<qvars, pvars, svars, evars, fvars, kvars, hvars>>
    \/ StorageClear /\ UNCHANGED <<qvars, pvars, svars, evars, fvars, kvars, hvars>>
    \/ StorageCorrupt /\ UNCHANGED <<qvars, pvars, svars, evars, fvars, kvars, hvars>>

SpecRelayList == InitRelayList /\ [][NextRelayList]_vars

----------------------------------------------------------------------------
(* Specification of the pool's lifecycle, with the saved list left alone *)

InitPool == AllIdle

NextPool ==
    \/ GetPool /\ UNCHANGED <<qvars, pvars, svars, evars, fvars, kvars, hvars>>
    \/ \E opened \in SUBSET Urls :
          PoolUse(opened) /\ UNCHANGED <<qvars, pvars, svars, evars, fvars, kvars, hvars>>
    \/ ClosePool /\ UNCHANGED <<qvars, pvars, svars, evars, fvars, kvars, hvars>>
    \/ ConnectToRelaysStart /\ UNCHANGED <<qvars, pvars, svars, evars, fvars, kvars, hvars>>
    \/ \E u \in Urls :
          ConnectToRelayStart(u) /\ UNCHANGED <<qvars, pvars, svars, evars, fvars, kvars, hvars>>
    \/ \E u \in Urls :
          ConnectAttemptOk(u) /\ UNCHANGED <<qvars, pvars, svars, evars, fvars, kvars, hvars>>
    \/ \E u \in Urls :
          ConnectAttemptFail(u) /\ UNCHANGED <<qvars, pvars, svars, evars, fvars, kvars, hvars>>
    \/ ConnectToRelaysReturn /\ UNCHANGED <<qvars, pvars, svars, evars, fvars, kvars, hvars>>
    \/ \E u \in Urls : TransportDrop(u) /\ UNCHANGED <<qvars, pvars, svars, evars, fvars, kvars, hvars>>

SpecPool == InitPool /\ [][NextPool]_vars

----------------------------------------------------------------------------
(* Specification of relay management: the pool's lifecycle together with  *)
(* the settings page adding and removing a relay of the user's own         *)

InitRelays == AllIdle

CustomUrls == Urls \ RangeOf(DEFAULT_RELAYS)

NextRelays ==
    \/ \E u \in CustomUrls :
          AddRelay(u) /\ UNCHANGED <<qvars, pvars, svars, evars, fvars, kvars, hvars>>
    \/ \E u \in CustomUrls :
          RemoveRelay(u) /\ UNCHANGED <<qvars, pvars, svars, evars, fvars, kvars, hvars>>
    \/ GetPool /\ UNCHANGED <<qvars, pvars, svars, evars, fvars, kvars, hvars>>
    \/ \E opened \in SUBSET Urls :
          PoolUse(opened) /\ UNCHANGED <<qvars, pvars, svars, evars, fvars, kvars, hvars>>
    \/ ClosePool /\ UNCHANGED <<qvars, pvars, svars, evars, fvars, kvars, hvars>>
    \/ ConnectToRelaysStart /\ UNCHANGED <<qvars, pvars, svars, evars, fvars, kvars, hvars>>
    \/ \E u \in Urls :
          ConnectToRelayStart(u) /\ UNCHANGED <<qvars, pvars, svars, evars, fvars, kvars, hvars>>
    \/ \E u \in Urls :
          ConnectAttemptOk(u) /\ UNCHANGED <<qvars, pvars, svars, evars, fvars, kvars, hvars>>
    \/ \E u \in Urls :
          ConnectAttemptFail(u) /\ UNCHANGED <<qvars, pvars, svars, evars, fvars, kvars, hvars>>
    \/ ConnectToRelaysReturn /\ UNCHANGED <<qvars, pvars, svars, evars, fvars, kvars, hvars>>
    \/ \E u \in Urls : TransportDrop(u) /\ UNCHANGED <<qvars, pvars, svars, evars, fvars, kvars, hvars>>

SpecRelays == InitRelays /\ [][NextRelays]_vars

----------------------------------------------------------------------------
(* Specification of building and posting events *)

InitPost == AllIdle

NextPost ==
    \/ \E op \in PostOps, key \in KeyStates :
          PostCall(op, key, getSavedRelays(storage))
             /\ UNCHANGED <<qvars, svars, rvars, fvars, kvars, hvars>>
    \/ \E i \in 1..MaxUrls :
          PublishRelayAck(i) /\ UNCHANGED <<qvars, svars, rvars, evars, fvars, kvars, hvars>>
    \/ \E i \in 1..MaxUrls :
          PublishRelayReject(i) /\ UNCHANGED <<qvars, svars, rvars, evars, fvars, kvars, hvars>>
    \/ \E i \in 1..MaxUrls :
          PoolPublishTimeout(i) /\ UNCHANGED <<qvars, svars, rvars, evars, fvars, kvars, hvars>>
    \/ PublishReturn /\ UNCHANGED <<qvars, svars, rvars, evars, fvars, kvars, hvars>>
    \/ PostReturn /\ UNCHANGED <<qvars, svars, rvars, fvars, kvars, hvars>>

SpecPost == InitPost /\ [][NextPost]_vars

----------------------------------------------------------------------------
(* Specification of the profile hook *)

InitProfile == AllIdle

NextProfile ==
    \/ FetchProfile /\ UNCHANGED <<pvars, svars, rvars, evars, kvars, hvars>>
    \/ \E r \in Relays, id \in Ids :
          QueryRelayEvent(r, id) /\ UNCHANGED <<pvars, svars, rvars, evars, fvars, kvars, hvars>>
    \/ \E r \in Relays, how \in {"eose", "failed"} :
          QueryRelaySettle(r, how) /\ UNCHANGED <<pvars, svars, rvars, evars, fvars, kvars, hvars>>
    \/ QueryResolve /\ UNCHANGED <<pvars, svars, rvars, evars, fvars, kvars, hvars>>
    \/ FetchProfileDone /\ UNCHANGED <<pvars, svars, rvars, evars, kvars, hvars>>
    \/ \E r \in Relays, id \in Ids :
          LateRelayEvent(r, id) /\ UNCHANGED <<pvars, svars, rvars, evars, kvars, hvars>>

SpecProfile == InitProfile /\ [][NextProfile]_vars


----------------------------------------------------------------------------
(* Claims *)

Occurrences(s, id) == Cardinality({ i \in 1..Len(s) : s[i].id = id })

\* C1: when the relays of a query deliver overlapping event ids, the list
\* fetchEvents returns holds every delivered id exactly once.
C1_QueryDedup ==
    qPhase = "done" => \A id \in Delivered : Occurrences(fetchRet, id) = 1

\* C1 witness: a finished query in which two relays delivered the same id.
C1_Witness == qPhase = "done" /\ qOverlap /\ fetchRet # <<>>

Acked == { pRelayUrls[i] : i \in { j \in 1..Len(pRelayUrls) : pPromises[j] = "fulfilled" } }

\* C2: the map publishEvent returns has one entry per listed relay, true for
\* exactly the relays that acknowledged and false for exactly those that
\* rejected or timed out, whatever the other relays did.
C2_PartialPublish ==
    pPhase = "resolved" =>
        /\ DOMAIN pResults = UrlsOf(pRelayUrls)
        /\ { u \in DOMAIN pResults : pResults[u] } = Acked
        /\ { u \in DOMAIN pResults : ~pResults[u] } = UrlsOf(pRelayUrls) \ Acked

\* C2 witness: three distinct relays, one timed out and two acknowledged, and
\* the call returned one failure and two successes.
C2_Witness ==
    /\ pPhase = "resolved"
    /\ Len(pRelayUrls) = 3
    /\ Cardinality(UrlsOf(pRelayUrls)) = 3
    /\ Cardinality({ i \in 1..3 : pPromises[i] = "timedout" }) = 1
    /\ Cardinality({ i \in 1..3 : pPromises[i] = "fulfilled" }) = 2
    /\ Cardinality({ u \in DOMAIN pResults : pResults[u] }) = 2
    /\ Cardinality({ u \in DOMAIN pResults : ~pResults[u] }) = 1

C4_LatestWins ==
    (qPhase = "done" /\ Delivered # {}) =>
        /\ Len(metaRet) = 1
        /\ metaRet[1].id \in Delivered
        /\ \A id \in Delivered : CreatedAtOf(id) <= metaRet[1].created_at

\* C4 witness: the older event arrived first and the newer one was returned.
C4_Witness ==
    /\ qPhase = "done"
    /\ Len(fetchRet) >= 2
    /\ Len(metaRet) = 1
    /\ fetchRet[1].created_at < metaRet[1].created_at

\* C5: among delivered metadata events with the same, largest created_at the
\* one with the lexicographically largest id is returned.
C5_TieBreakLargestId ==
    (qPhase = "done" /\ Len(metaRet) = 1) =>
        \A id \in Delivered :
            CreatedAtOf(id) = metaRet[1].created_at => id <= metaRet[1].id

\* C6: what fetchEvents hands its caller when every relay was unreachable
\* differs from what it hands over when the relays answered with no events.
C6_AllFailedDistinguishable == obsAllFailed \cap obsLegitEmpty = {}

\* C7: a relay that errors or times out takes nothing away: the list returned
\* holds exactly the events the relays delivered before the query closed.
C7_FailedRelayContributesNothing ==
    qPhase = "done" => IdsOf(fetchRet) = Delivered

\* C7 witness: one relay failed, another one delivered an event and ended
\* normally, and the event was returned.
C7_Witness ==
    /\ qPhase = "done"
    /\ \E r \in Relays : qStatus[r] = "failed"
    /\ \E r \in Relays, id \in Ids :
          qStatus[r] = "eose" /\ qFrom[id] = r /\ id \in IdsOf(fetchRet)

\* C8: the list fetchEvents returns is sorted by created_at, newest first.
C8_FetchSorted ==
    qPhase = "done" =>
        \A i, j \in 1..Len(fetchRet) :
            i < j => fetchRet[i].created_at >= fetchRet[j].created_at

\* C9: onEvent runs at most once per event id on one subscription, however
\* many relays push the event.
C9_OnEventOncePerId ==
    \A i, j \in 1..Len(onEventLog) : onEventLog[i] = onEventLog[j] => i = j

\* C9 witness: two relays pushed the same id and onEvent ran for it.
C9_Witness == sOverlap /\ onEventLog # <<>>

\* C10: after the first invocation of the cancellation handle every per-relay
\* subscription is closed and onEvent runs no more; a further invocation
\* changes nothing.
C10_CancelIdempotent ==
    /\ [](cancelCalls >= 1 => (\A r \in Relays : ~sOpen[r]) /\ ~lateEvents)
    /\ [][(cancelCalls >= 1 /\ cancelCalls' = cancelCalls + 1) =>
            /\ sOpen' = sOpen
            /\ sPhase' = sPhase
            /\ onEventLog' = onEventLog
            /\ sKnownIds' = sKnownIds]_vars

\* C10 witness: the handle was invoked twice on a subscription that had
\* delivered events.
C10_Witness == cancelCalls >= 2 /\ onEventLog # <<>> /\ \A r \in Relays : ~sOpen[r]

----------------------------------------------------------------------------
(* Claims on relay management, posting and the profile hook *)

\* C11: after addRelay(url) the url is in the persisted list; after
\* removeRelay(url) it is absent from the list and no connection to it is
\* left open, whichever operation opened it.
C11_RemoveTearsDown ==
    /\ lastOp.op = "addRelay" => lastOp.url \in RangeOf(getSavedRelays(storage))
    /\ lastOp.op = "removeRelay" =>
          /\ lastOp.url \notin RangeOf(getSavedRelays(storage))
          /\ lastOp.url \notin conns

\* C12: after closePool no relay connection is left open, whether or not the
\* relay is in the saved list, and no connection is tracked.
C12_ClosePoolDisconnectsAll ==
    lastOp.op = "closePool" => conns = {} /\ activeRelays = {}

PoolCallers == {"use", "connectToRelays", "connectToRelay"}

\* C13 (as stated): a publish, query, subscribe or connect issued after
\* closePool does not go ahead on a pool that was created silently for it.
C13_UnusableAfterClose ==
    ~(lastOp.op \in PoolCallers /\ lastOp.reinst)

\* C13 (amended): a publish, query, subscribe or connect that calls getPool
\* runs on the module's current pool, which is never a pool that closePool
\* has closed: after closePool it is a newly created one.
C13_FreshPoolAfterClose ==
    (lastOp.op \in PoolCallers /\ lastOp.gen # 0) =>
        /\ lastOp.gen = pool
        /\ lastOp.gen \notin closedGens

C13_Witness ==
    /\ lastOp.op = "use"
    /\ lastOp.reinst
    /\ closedGens # {}
    /\ lastOp.gen = pool
    /\ lastOp.gen \notin closedGens

\* C14: connectToRelays never throws because a relay failed, returns only
\* when every attempt has settled, and returns exactly the relays whose
\* attempt succeeded.
C14_ConnectToRelaysResult ==
    cKind = "many" =>
        /\ cPhase # "threw"
        /\ cPhase = "returned" =>
              /\ \A u \in Urls : cAttempt[u] \in {"none", "ok", "failed"}
              /\ cRet = {u \in Urls : cAttempt[u] = "ok"}

C14_Witness ==
    /\ cKind = "many"
    /\ cPhase = "returned"
    /\ \E u \in Urls : cAttempt[u] = "failed"
    /\ \E u \in Urls : cAttempt[u] = "ok"
    /\ cRet = {u \in Urls : cAttempt[u] = "ok"}

\* C15: when there is no signing key, or the signer rejects the key, the
\* operation ends in an error thrown to its caller.
C15_KeyFailuresThrown ==
    (ePhase = "done" /\ eKey # "valid") => eRet = "threw"

\* C16: a publishing operation reports success to its caller only when
\* every relay accepted the event.
C16_PublishFailureSurfaced ==
    (ePhase = "done" /\ Publishes(eOp) /\ eRet \in {"event", "liked"}) =>
        \A u \in DOMAIN pResults : pResults[u]

\* C17: once the profile has been resolved, a metadata event that arrives
\* later from a slow relay is reflected in the profile when it is newer.
C17_LateNewerSupersedes ==
    (~profLoading /\ lateNewest > 0) =>
        /\ profEvent # <<>>
        /\ profEvent[1].created_at >= lateNewest

\* C18: getSavedRelays returns DEFAULT_RELAYS when nothing is stored or the
\* stored text cannot be parsed, and exactly the list last saved, in its
\* order, once one has been saved.
C18_SavedOrDefault ==
    /\ (storage = <<>> \/ ~JSONWellFormed(storage)) =>
          getSavedRelays(storage) = DEFAULT_RELAYS
    /\ savedArg # <<>> => getSavedRelays(storage) = savedArg[1]

C18_Witness ==
    /\ savedArg # <<>>
    /\ Len(savedArg[1]) = 2
    /\ savedArg[1][1] > savedArg[1][2]
    /\ getSavedRelays(storage) = savedArg[1]

\* C19: isRelayActive and getActiveRelayUrls report a relay only while a
\* connection to it is open.
C19_ActiveOnlyWhileConnected ==
    /\ \A u \in Urls : isRelayActive(u) => u \in conns
    /\ getActiveRelayUrls \subseteq conns

BuildOps == {"createNoteEvent", "createReactionEvent"}

\* C20 (as stated): the note, the reaction and the metadata update are built
\* without publishEvent being called.
C20_BuildNeverPublishes ==
    eOp \in BuildOps \cup {"updateUserMetadata"} => ~ePublishCalled

\* C20 (amended): createNoteEvent and createReactionEvent build and sign
\* their event without calling publishEvent.
C20_BuildersNeverPublish ==
    eOp \in BuildOps => ~ePublishCalled /\ pPhase # "pending"

C20_Witness ==
    /\ eOp = "createReactionEvent"
    /\ ePhase = "done"
    /\ eRet = "event"
    /\ ~ePublishCalled

----------------------------------------------------------------------------
(* Specification of the settings page editing the relay list, with         *)
(* connectToRelay opening the connections removeRelay has to close         *)

InitRelayEdit == AllIdle

NextRelayEdit ==
    \/ \E u \in Urls : AddRelay(u) /\ UNCHANGED <<qvars, pvars, svars, evars, fvars, kvars, hvars>>
    \/ \E u \in Urls : RemoveRelay(u) /\ UNCHANGED <<qvars, pvars, svars, evars, fvars, kvars, hvars>>
    \/ StorageClear /\ UNCHANGED <<qvars, pvars, svars, evars, fvars, kvars, hvars>>
    \/ \E u \in Urls :
          ConnectToRelayStart(u) /\ UNCHANGED <<qvars, pvars, svars, evars, fvars, kvars, hvars>>
    \/ \E u \in Urls :
          ConnectAttemptOk(u) /\ UNCHANGED <<qvars, pvars, svars, evars, fvars, kvars, hvars>>
    \/ \E u \in Urls :
          ConnectAttemptFail(u) /\ UNCHANGED <<qvars, pvars, svars, evars, fvars, kvars, hvars>>

SpecRelayEdit == InitRelayEdit /\ [][NextRelayEdit]_vars

----------------------------------------------------------------------------
(* Claims on the relay list, the keys and the hooks *)

\* C27: whenever the module holds no pool, before the first use or after
\* closePool, activeRelays is empty.
C27_NoPoolNoActiveRelays ==
    pool = 0 => activeRelays = {}

NoDuplicates(list) == \A i, j \in 1..Len(list) : list[i] = list[j] => i = j

\* C29: the persisted list never holds a url twice; addRelay of a url in the
\* list leaves the list as it is and appends a new url at the end;
\* removeRelay drops the url and keeps the order of the others.
C29_EditsKeepListClean ==
    /\ []NoDuplicates(getSavedRelays(storage))
    /\ [][LET old == getSavedRelays(storage)
              new == getSavedRelays(storage')
              u == lastOp'.url
          IN /\ lastOp'.op = "addRelay" =>
                   new = IF u \in RangeOf(old) THEN old ELSE Append(old, u)
             /\ lastOp'.op = "removeRelay" =>
                   new = SelectSeq(old, LAMBDA r : r # u)]_vars

C29_Witness ==
    /\ lastOp.op = "removeRelay"
    /\ Len(getSavedRelays(storage)) = 2
    /\ getSavedRelays(storage)[1] > getSavedRelays(storage)[2]

----------------------------------------------------------------------------
(* Specification of the key conversions *)

\* The two answers a build of the hex helpers may give are both tried.
InitKeys ==
    /\ QInit /\ PublishIdle /\ SubIdle /\ RelaysIdle /\ PostIdle /\ ProfileIdle
    /\ HookIdle
    /\ libFoldsCase \in BOOLEAN
    /\ libChecksBytes \in BOOLEAN
    /\ kOp = "none"
    /\ kHex = <<>>
    /\ kIn = NoForm
    /\ kOut = Value("none", <<>>)

NextKeys ==
    \/ /\ kOp = "none"
       /\ \E op \in {"hexToNpub", "hexToNsec"}, h \in HexStrings :
             EncodeKey(op, h) /\ UNCHANGED <<qvars, pvars, svars, rvars, evars, fvars, hvars>>
    \/ \E op \in {"npubToHex", "nsecToHex"} :
          DecodeBack(op) /\ UNCHANGED <<qvars, pvars, svars, rvars, evars, fvars, hvars>>
    \/ /\ kOp = "none"
       /\ \E op \in {"npubToHex", "nsecToHex"}, d \in DisplayForms :
             DecodeKey(op, d) /\ UNCHANGED <<qvars, pvars, svars, rvars, evars, fvars, hvars>>
    \/ KeyCallOver /\ UNCHANGED <<qvars, pvars, svars, rvars, evars, fvars, hvars>>

SpecKeys == InitKeys /\ [][NextKeys]_vars

\* The decoding that undoes an encoding.
InverseOf(op) == IF op = "npubToHex" THEN "npub" ELSE "nsec"
RoundTripDone ==
    /\ kOp \in {"npubToHex", "nsecToHex"}
    /\ kHex # <<>>
    /\ kIn.hrp = InverseOf(kOp)

\* C21 (as stated): npubToHex(hexToNpub(x)) = x and nsecToHex(hexToNsec(k)) = k
\* for every hex key the conversions are given.
C21_RoundTripEveryKey ==
    RoundTripDone => kOut = Value("hex", kHex)

\* C21 (amended): npubToHex(hexToNpub(x)) = x and nsecToHex(hexToNsec(k)) = k
\* for every key written in lower-case hex.
C21_RoundTripCanonical ==
    (RoundTripDone /\ Canonical(kHex)) => kOut = Value("hex", kHex)

C21_Witness ==
    /\ RoundTripDone
    /\ kOp = "nsecToHex"
    /\ Canonical(kHex)
    /\ kHex[1] # kHex[2]
    /\ kOut = Value("hex", kHex)

\* C22: npubToHex and nsecToHex end in an error on a malformed display form
\* and on a well-formed one that carries the other prefix.
C22_WrongFormRejected ==
    (kOp \in {"npubToHex", "nsecToHex"}
        /\ (kIn \in MalformedForms \/ kIn.hrp # InverseOf(kOp)))
    => kOut.t = "error"

----------------------------------------------------------------------------
(* Specification of useNostrEvents (hooks.ts) *)

InitHook == AllIdle

HookSteps(maxRuns) ==
    \/ nRuns < maxRuns /\ EffectRun /\ UNCHANGED <<qvars, pvars, svars, rvars, evars, fvars, kvars>>
    \/ Unmount /\ UNCHANGED <<qvars, pvars, svars, rvars, evars, fvars, kvars>>
    \/ \E k \in Runs :
          ConnectDone(k) /\ UNCHANGED <<qvars, pvars, svars, rvars, evars, fvars, kvars>>
    \/ \E k \in Runs :
          /\ runPhase[k] = "fetching"
          /\ \E res \in FetchResults :
                FetchSettle(k, res)
                /\ UNCHANGED <<qvars, pvars, svars, rvars, evars, fvars, kvars>>
    \/ \E k \in Runs :
          StartSubscription(k)
          /\ UNCHANGED <<qvars, pvars, svars, rvars, evars, fvars, kvars>>
    \/ Refetch /\ UNCHANGED <<qvars, pvars, svars, rvars, evars, fvars, kvars>>
    \/ /\ refetching > 0
       /\ \E res \in FetchResults :
             RefetchSettle(res)
             /\ UNCHANGED <<qvars, pvars, svars, rvars, evars, fvars, kvars>>

NextHook ==
    \/ HookSteps(MaxRuns)
    \/ \E k \in Runs, id \in FeedIds :
          SubscriptionEvent(k, id)
          /\ UNCHANGED <<qvars, pvars, svars, rvars, evars, fvars, kvars>>

SpecHook == InitHook /\ [][NextHook]_vars

----------------------------------------------------------------------------
(* Specification of the variant of useNostrEvents with a pending list *)

InitHookPending ==
    /\ QInit /\ PublishIdle /\ SubIdle /\ RelaysIdle /\ PostIdle /\ ProfileIdle
    /\ KeysIdle
    /\ HookAtRest(TRUE, FALSE)

PendingSteps ==
    \/ \E k \in Runs, id \in FeedIds :
          PendingSubscriptionEvent(k, id)
          /\ UNCHANGED <<qvars, pvars, svars, rvars, evars, fvars, kvars>>
    \/ LoadNewEvents /\ UNCHANGED <<qvars, pvars, svars, rvars, evars, fvars, kvars>>

NextHookPending == HookSteps(MaxPendingRuns) \/ PendingSteps

SpecHookPending == InitHookPending /\ [][NextHookPending]_vars

\* The same with either value of autoUpdate and as many runs of the effect
\* as in SpecHook.
InitHookStale ==
    /\ QInit /\ PublishIdle /\ SubIdle /\ RelaysIdle /\ PostIdle /\ ProfileIdle
    /\ KeysIdle
    /\ \E au \in BOOLEAN : HookAtRest(TRUE, au)

NextHookStale == HookSteps(MaxRuns) \/ PendingSteps

SpecHookStale == InitHookStale /\ [][NextHookStale]_vars

----------------------------------------------------------------------------
(* Claims on useNostrEvents *)

SortedDesc(list) ==
    \A i, j \in 1..Len(list) : i < j => list[i].created_at >= list[j].created_at

\* C24: the events list useNostrEvents surfaces is sorted by created_at,
\* newest first, in every reachable state.
C24_EventsSorted == SortedDesc(hEvents)

\* C24 witness: the subscription's callback was the last to change the list,
\* which holds events of different ages.
C24_Witness ==
    /\ hLast = "event"
    /\ Len(hEvents) >= 2
    /\ hEvents[1].created_at > hEvents[Len(hEvents)].created_at

\* C23: neither the displayed list nor the pending list of useNostrEvents
\* holds two events with the same id, whatever the interleaving of fetches,
\* subscription events and loadNewEvents.
C23_NoDuplicateEvents == NoDuplicates(hEvents) /\ NoDuplicates(pendingEvents)

\* C25: once the cleanup of an effect run has run, no subscription opened by
\* that run is open.
C25_CleanupClosesAll == \A k \in Runs : runCleaned[k] => ~hSubOpen[k]

\* C28: while the component is mounted, isLoading is true whenever a fetch is
\* in flight, and false when every started fetch has settled.
C28_LoadingWhileFetching ==
    mounted =>
        /\ FetchesInFlight > 0 => isLoading
        /\ (FetchesInFlight = 0 /\ hLast = "fetch") => ~isLoading

\* C30: hasNewEvents is true exactly when pendingEvents is non-empty, and
\* loadNewEvents leaves pendingEvents empty with every event that was pending
\* in the displayed list.
C30_PendingFlagged ==
    /\ [](hasNewEvents <=> pendingEvents # <<>>)
    /\ [][LoadNewEvents =>
             /\ pendingEvents' = <<>>
             /\ IdsOf(pendingEvents) \subseteq IdsOf(hEvents')]_vars

\* C30 witness: loadNewEvents has moved pending events into the displayed
\* list.
C30_Witness == hLast = "load" /\ hEvents # <<>> /\ pendingEvents = <<>> /\ ~hasNewEvents

----------------------------------------------------------------------------
(* Specification of overlapping fetchProfile calls of useNostrProfile *)

InitProfileCalls == AllIdle

NextProfileCalls ==
    \/ \E pk \in Pubkeys :
          CallFetchProfile(pk)
          /\ UNCHANGED <<qvars, pvars, svars, rvars, evars, kvars, hvars>>
    \/ \E c \in ProfileCalls :
          ProfileFetchSettles(c)
          /\ UNCHANGED <<qvars, pvars, svars, rvars, evars, kvars, hvars>>

SpecProfileCalls == InitProfileCalls /\ [][NextProfileCalls]_vars

\* C26: once every fetchProfile call has settled, the profile displayed is
\* the result of the call started last, which is one for the current pubkey.
C26_LatestFetchShown ==
    (pfCount > 0 /\ \A c \in ProfileCalls : pfState[c] # "pending") =>
        pfShown = pfCount /\ pfKey[pfShown] = curPubkey

====
